---- MODULE Spec2Model ----
(***************************************************************************)
(* Recipes API (src/main.go): four gin handlers over one MongoDB           *)
(* collection, the package-level variables they share (recipes, err) and   *)
(* the requests that run them concurrently, one goroutine per request.     *)
(***************************************************************************)
EXTENDS Integers, Sequences, FiniteSets, TLC

(* ---------------------------------------------------------------- bounds *)

\* NewObjectID is called at most MaxCreates times (one per bound create).
MaxCreates == 2
\* time.Now() reads one of MaxTime + 1 consecutive values.
MaxTime == 0
\* Clock readings per millisecond: a BSON datetime holds whole milliseconds.
TicksPerMs == 2
\* Number of create and update requests that can be in flight at once.
MaxInFlight == 2

Ids == 1..MaxCreates
Clock == (TicksPerMs + 1)..(TicksPerMs + 1 + MaxTime)

(* ------------------------------------------------------------- strings *)

\* A tag or query text is a sequence of ASCII codes.
italian == <<105, 116, 97, 108, 105, 97, 110>>
ITALIAN == <<73, 84, 65, 76, 73, 65, 78>>
Italian == <<73, 116, 97, 108, 105, 97, 110>>
french  == <<102, 114, 101, 110, 99, 104>>
dinner  == <<100, 105, 110, 110, 101, 114>>
empty   == <<>>

\* strings.EqualFold on ASCII text: bytes are compared pairwise; two different
\* bytes are equal only when the smaller is 'A'..'Z' and the larger is the
\* same letter in lower case.
RECURSIVE EqualFoldFrom(_, _, _)
EqualFoldFrom(s, t, i) ==
    IF i > Len(s) \/ i > Len(t)
    THEN Len(s) = Len(t)
    ELSE LET a  == s[i]
             b  == t[i]
             sr == IF a < b THEN a ELSE b
             tr == IF a < b THEN b ELSE a
         IN  IF a = b
             THEN EqualFoldFrom(s, t, i + 1)
             ELSE IF 65 <= sr /\ sr <= 90 /\ tr = sr + 32
                  THEN EqualFoldFrom(s, t, i + 1)
                  ELSE FALSE

EqualFold(s, t) == EqualFoldFrom(s, t, 1)

(* ------------------------------------------------------------ ObjectID *)

NilObjectID == 0
ObjectIDHexLen == 24
HexDigits == <<"0", "1", "2", "3", "4", "5", "6", "7",
               "8", "9", "a", "b", "c", "d", "e", "f">>

IsHexDigit(c) == \E k \in 1..Len(HexDigits) : HexDigits[k] = c
HexValue(c) == (CHOOSE k \in 1..Len(HexDigits) : HexDigits[k] = c) - 1

RECURSIVE HexNumber(_, _)
HexNumber(s, n) ==
    IF n = 0 THEN 0 ELSE 16 * HexNumber(s, n - 1) + HexValue(s[n])

\* primitive.ObjectIDFromHex: a text that is not ObjectIDHexLen hex digits
\* gives the zero ObjectID and an error.
ObjectIDFromHex(s) ==
    IF Len(s) = ObjectIDHexLen /\ \A i \in 1..Len(s) : IsHexDigit(s[i])
    THEN [id |-> HexNumber(s, Len(s)), err |-> FALSE]
    ELSE [id |-> NilObjectID, err |-> TRUE]

\* The hex text of an ObjectID: digits d left-padded with zeros.
ZeroPad(d) ==
    [i \in 1..ObjectIDHexLen |->
        IF i <= ObjectIDHexLen - Len(d) THEN "0" ELSE d[i - (ObjectIDHexLen - Len(d))]]

\* The :id path parameters the requests use: the first id NewObjectID gives,
\* a well-formed id no recipe has, and two malformed texts.
PathIds ==
    {ZeroPad(<<"1">>), ZeroPad(<<"f", "f">>), <<"1">>, ZeroPad(<<"z", "1">>)}

(* -------------------------------------------------------------- Recipe *)

\* type Recipe
MkRecipe(id, name, tags, ingredients, instructions, publishedAt) ==
    [ID |-> id, Name |-> name, Tags |-> tags, Ingredients |-> ingredients,
     Instructions |-> instructions, PublishedAt |-> publishedAt]

\* var recipe Recipe
ZeroRecipe == MkRecipe(NilObjectID, "", <<>>, <<>>, <<>>, 0)

\* Request bodies. valid = FALSE is a body that does not parse as the Recipe
\* JSON structure; a valid body may carry an id and a publishedAt of its own.
Bodies == <<
    [valid |-> TRUE, id |-> NilObjectID, publishedAt |-> 0, name |-> "Pasta",
     tags |-> <<italian>>, ingredients |-> <<"pasta", "water">>,
     instructions |-> <<"boil">>],
    [valid |-> TRUE, id |-> 1, publishedAt |-> 1, name |-> "Quiche",
     tags |-> <<dinner, french>>, ingredients |-> <<"eggs">>,
     instructions |-> <<"bake">>],
    [valid |-> FALSE, id |-> NilObjectID, publishedAt |-> 0, name |-> "",
     tags |-> <<>>, ingredients |-> <<>>, instructions |-> <<>>]
>>

BodyIds == 1..Len(Bodies)
\* The bodies the update requests send: one that binds, one that does not.
UpdateBodies == {2, 3}

\* c.ShouldBindJSON(&recipe): the fields of the body, or an error.
ShouldBindJSON(b) ==
    IF Bodies[b].valid
    THEN [err |-> FALSE,
          recipe |-> MkRecipe(Bodies[b].id, Bodies[b].name, Bodies[b].tags,
                              Bodies[b].ingredients, Bodies[b].instructions,
                              Bodies[b].publishedAt)]
    ELSE [err |-> TRUE, recipe |-> ZeroRecipe]

(* ------------------------------------------------------------- storage *)

\* A BSON datetime holds milliseconds.
TruncateToMs(t) == (t \div TicksPerMs) * TicksPerMs

\* bson tags of Recipe: the document InsertOne writes.
ToBSON(r) ==
    [_id |-> r.ID, name |-> r.Name, tags |-> r.Tags, ingredients |-> r.Ingredients,
     instructions |-> r.Instructions, publishedAt |-> TruncateToMs(r.PublishedAt)]

\* cur.Decode(&recipe)
Decode(d) ==
    MkRecipe(d._id, d.name, d.tags, d.ingredients, d.instructions, d.publishedAt)

HasId(coll, id) == \E i \in 1..Len(coll) : coll[i]._id = id

\* collection.InsertOne: fails when the call fails (reachable = FALSE) or the
\* _id is already in the collection.
InsertOne(coll, doc, reachable) ==
    IF reachable /\ ~HasId(coll, doc._id)
    THEN [coll |-> Append(coll, doc), err |-> FALSE]
    ELSE [coll |-> coll, err |-> TRUE]

\* The $set document of UpdateRecipeHandler applied to one document.
SetFields(d, r) ==
    [d EXCEPT !.name = r.Name, !.instructions = r.Instructions,
              !.ingredients = r.Ingredients, !.tags = r.Tags]

\* collection.UpdateOne with filter {_id: objectId}: the first matching
\* document is changed; no match is no error.
UpdateOne(coll, objectId, r, reachable) ==
    IF reachable
    THEN [coll |-> [i \in 1..Len(coll) |->
                       IF coll[i]._id = objectId
                          /\ \A j \in 1..(i - 1) : coll[j]._id # objectId
                       THEN SetFields(coll[i], r)
                       ELSE coll[i]],
          err |-> FALSE]
    ELSE [coll |-> coll, err |-> TRUE]

(* --------------------------------------------------------------- state *)

VARIABLES
    store,      \* the documents of the "recipes" collection, in natural order
    recipes,    \* var recipes []Recipe, the package-level slice search scans
    err,        \* var err error, package level: TRUE when it holds an error
    counter,    \* the number of ObjectIDs NewObjectID has handed out
    inflight,   \* the create and update requests between their storage call
                \* and their response, in order of arrival, with their locals
    resp,       \* the response written by the step just taken, NoResp otherwise
    created,    \* history: per id, the body and the stored time of its insert
    acked,      \* history: per id, the body of its latest update, once answered 200
    returned    \* history: per id, how many 200 create responses carried it

vars == <<store, recipes, err, counter, inflight, resp, created, acked, returned>>

NoResp ==
    [op |-> "none", status |-> 0, kind |-> "none", recipe |-> ZeroRecipe,
     list |-> <<>>, tag |-> <<>>, body |-> 0, objectId |-> NilObjectID,
     called |-> FALSE, failed |-> FALSE, existed |-> FALSE,
     overwritten |-> FALSE]

NotCreated == [body |-> 0, publishedAt |-> 0, pristine |-> FALSE]

\* func init(): the connection is up, the ping has stored nil in err.
Init ==
    /\ store = <<>>
    /\ recipes = <<>>
    /\ err = FALSE
    /\ counter = 0
    /\ inflight = <<>>
    /\ resp = NoResp
    /\ created = [i \in Ids |-> NotCreated]
    /\ acked = [i \in Ids |-> 0]
    /\ returned = [i \in Ids |-> 0]

\* c.JSON(status, body)
JSON(status, kind, fields) ==
    [f \in DOMAIN NoResp |->
        IF f = "status" THEN status
        ELSE IF f = "kind" THEN kind
        ELSE IF f \in DOMAIN fields THEN fields[f]
        ELSE NoResp[f]]

\* What a response records of the request r it answers.
OfRequest(r) ==
    [op |-> r.op, body |-> r.body, objectId |-> r.objectId, called |-> TRUE,
     failed |-> r.failed, existed |-> r.existed, overwritten |-> r.overwritten]

\* primitive.NewObjectID(): a value no earlier call returned, never zero.
NewObjectID == counter + 1

\* The requests in flight once request r has made its storage call and stored
\* the outcome in the package-level err: the write lands between the write
\* and the test of every request already in flight.
Arrive(r) ==
    Append([k \in 1..Len(inflight) |->
               [inflight[k] EXCEPT
                   !.overwritten = TRUE,
                   !.latest = @ /\ ~(r.op = "update" /\ r.objectId = inflight[k].objectId)]],
           r)

\* The requests in flight once the k-th has answered.
Leave(k) ==
    [j \in 1..(Len(inflight) - 1) |-> IF j < k THEN inflight[j] ELSE inflight[j + 1]]

(* ------------------------------------------------- NewRecipeHandler *)

\* A handler that does not stop at a body that fails to bind.
BindErrorIgnored(bind) == FALSE

\* if err := c.ShouldBindJSON(&recipe); err != nil { ...; return }
BindFailed(bind) == bind.err

\* A handler that keeps the id of the body when the body has one.
StampKeepsCallerId(recipe, oid, t) ==
    [recipe EXCEPT !.ID = IF @ = NilObjectID THEN oid ELSE @, !.PublishedAt = t]

\* recipe.ID = primitive.NewObjectID(); recipe.PublishedAt = time.Now()
Stamp(recipe, oid, t) == [recipe EXCEPT !.ID = oid, !.PublishedAt = t]

\* Lines 138-148: a body that does not bind is answered 400 at once; otherwise
\* the recipe is stamped and inserted and the outcome is stored in the
\* package-level err. (An outcome that is stored later than its call is one
\* that is stored at once after a call made later: a failed call changes
\* nothing, and two successful calls store the same nil.)
NewRecipeInsert(b, t, reachable) ==
    /\ Len(inflight) < MaxInFlight
    /\ LET bind == ShouldBindJSON(b) IN
       IF BindFailed(bind)
       THEN /\ resp' = JSON(400, "error", [op |-> "create", body |-> b])
            /\ UNCHANGED <<store, err, counter, inflight, created>>
       ELSE /\ counter < MaxCreates
            /\ LET recipe == Stamp(bind.recipe, NewObjectID, t)
                   ins    == InsertOne(store, ToBSON(recipe), reachable)
               IN  /\ store' = ins.coll
                   /\ err' = ins.err
                   /\ inflight' = Arrive(
                          [op |-> "create", body |-> b, recipe |-> recipe,
                           objectId |-> recipe.ID, failed |-> ins.err,
                           latest |-> FALSE, existed |-> FALSE,
                           overwritten |-> FALSE])
                   /\ created' =
                          IF ~ins.err /\ recipe.ID \in Ids
                          THEN [created EXCEPT ![recipe.ID] =
                                   [body |-> b,
                                    publishedAt |-> ToBSON(recipe).publishedAt,
                                    pristine |-> TRUE]]
                          ELSE created
            /\ counter' = counter + 1
            /\ resp' = NoResp
    /\ UNCHANGED <<recipes, acked, returned>>

\* Lines 149-155: the test of the package-level err, and the response.
NewRecipeRespond(k) ==
    /\ k \in 1..Len(inflight)
    /\ inflight[k].op = "create"
    /\ IF err
       THEN /\ resp' = JSON(500, "error", OfRequest(inflight[k]))
            /\ UNCHANGED returned
       ELSE /\ resp' = JSON(200, "recipe",
                   OfRequest(inflight[k]) @@ [recipe |-> inflight[k].recipe])
            /\ returned' =
                   IF inflight[k].recipe.ID \in Ids
                   THEN [returned EXCEPT ![inflight[k].recipe.ID] = @ + 1]
                   ELSE returned
    /\ inflight' = Leave(k)
    /\ UNCHANGED <<store, recipes, err, counter, created, acked>>

(* ---------------------------------------------- UpdateRecipeHandler *)

\* A handler that reads a path id of any length as a hex number.
ParseParamAnyLength(id) ==
    IF \A i \in 1..Len(id) : IsHexDigit(id[i])
    THEN HexNumber(id, Len(id))
    ELSE NilObjectID

\* objectId, _ := primitive.ObjectIDFromHex(id): the error is dropped.
ParseParam(id) == ObjectIDFromHex(id).id

\* Lines 214-230: a body that does not bind is answered 400 at once; otherwise
\* UpdateOne is called and its outcome stored in the package-level err.
UpdateRecipeUpdate(id, b, reachable) ==
    /\ Len(inflight) < MaxInFlight
    /\ LET bind == ShouldBindJSON(b) IN
       IF BindFailed(bind)
       THEN /\ resp' = JSON(400, "error", [op |-> "update", body |-> b])
            /\ UNCHANGED <<store, err, inflight, created, acked>>
       ELSE LET objectId == ParseParam(id)
                upd      == UpdateOne(store, objectId, bind.recipe, reachable)
            IN  /\ store' = upd.coll
                /\ err' = upd.err
                /\ inflight' = Arrive(
                       [op |-> "update", body |-> b, recipe |-> bind.recipe,
                        objectId |-> objectId, failed |-> upd.err,
                        latest |-> TRUE, existed |-> HasId(store, objectId),
                        overwritten |-> FALSE])
                /\ created' = [i \in Ids |->
                       IF i = objectId THEN [created[i] EXCEPT !.pristine = FALSE]
                       ELSE created[i]]
                /\ acked' = [i \in Ids |-> IF i = objectId THEN 0 ELSE acked[i]]
                /\ resp' = NoResp
    /\ UNCHANGED <<recipes, counter, returned>>

\* Lines 231-238. When err is set back to nil between the test and
\* err.Error(), the handler panics and gin's recovery answers 500 as well.
UpdateRecipeRespond(k) ==
    /\ k \in 1..Len(inflight)
    /\ inflight[k].op = "update"
    /\ IF err
       THEN /\ resp' = JSON(500, "error", OfRequest(inflight[k]))
            /\ UNCHANGED acked
       ELSE /\ resp' = JSON(200, "message", OfRequest(inflight[k]))
            /\ acked' =
                   IF inflight[k].latest /\ inflight[k].existed
                      /\ inflight[k].objectId \in Ids
                   THEN [acked EXCEPT ![inflight[k].objectId] = inflight[k].body]
                   ELSE acked
    /\ inflight' = Leave(k)
    /\ UNCHANGED <<store, recipes, err, counter, created, returned>>

(* ------------------------------------------------ ListRecipeHandler *)

\* for cur.Next(ctx) { cur.Decode(&recipe); recipes = append(recipes, recipe) }
\* over the first n documents: Next gives false at the end of the result and
\* when the cursor fails, and the loop does not tell the two apart.
RECURSIVE ReadCursor(_, _, _, _)
ReadCursor(coll, n, i, local) ==
    IF i > n THEN local
    ELSE ReadCursor(coll, n, i + 1, Append(local, Decode(coll[i])))

\* A handler that assigns the package-level slice: recipes = make(...).
ListTargetGlobal(global, local) == local

\* recipes := make([]Recipe, 0) declares a slice of the handler's own: the
\* package-level recipes keeps its value.
ListTarget(global, local) == global

\* The whole handler: Find fails (found = FALSE), or the cursor delivers the
\* first n documents and then ends or fails.
ListRecipeHandler(found, n) ==
    /\ n \in 0..Len(store)
    /\ IF ~found
       THEN /\ n = 0
            /\ resp' = JSON(500, "error",
                   [op |-> "list", called |-> TRUE, failed |-> TRUE])
            /\ UNCHANGED recipes
       ELSE LET local == ReadCursor(store, n, 1, <<>>) IN
            /\ resp' = JSON(200, "list",
                   [op |-> "list", called |-> TRUE, failed |-> n < Len(store),
                    list |-> local])
            /\ recipes' = ListTarget(recipes, local)
    /\ UNCHANGED <<store, err, counter, inflight, created, acked, returned>>

(* --------------------------------------------- SearchRecipesHandler *)

\* A loop that assigns found = strings.EqualFold(t, tag): the last tag decides.
RECURSIVE TagLoopLastDecides(_, _, _, _)
TagLoopLastDecides(tags, tag, j, found) ==
    IF j > Len(tags) THEN found
    ELSE TagLoopLastDecides(tags, tag, j + 1, EqualFold(tags[j], tag))

\* for _, t := range recipes[i].Tags { if strings.EqualFold(t, tag) { found = true } }
RECURSIVE TagLoop(_, _, _, _)
TagLoop(tags, tag, j, found) ==
    IF j > Len(tags) THEN found
    ELSE TagLoop(tags, tag, j + 1, IF EqualFold(tags[j], tag) THEN TRUE ELSE found)

\* for i := 0; i < len(recipes); i++ { ...; if found { append } }
RECURSIVE SearchLoop(_, _, _, _)
SearchLoop(cache, tag, i, listOfRecipes) ==
    IF i > Len(cache) THEN listOfRecipes
    ELSE SearchLoop(cache, tag, i + 1,
             IF TagLoop(cache[i].Tags, tag, 1, FALSE)
             THEN Append(listOfRecipes, cache[i])
             ELSE listOfRecipes)

Queries == {italian, ITALIAN, french}

SearchRecipesHandler(tag) ==
    /\ resp' = JSON(200, "list",
           [op |-> "search", tag |-> tag,
            list |-> SearchLoop(recipes, tag, 1, <<>>)])
    /\ UNCHANGED <<store, recipes, err, counter, inflight, created, acked, returned>>

(* ----------------------------------------------------------- system *)

\* router.POST / GET / PUT of main: every request runs its handler.
Next ==
    \/ \E b \in BodyIds, t \in Clock, reachable \in BOOLEAN :
           NewRecipeInsert(b, t, reachable)
    \/ \E k \in 1..MaxInFlight : NewRecipeRespond(k)
    \/ \E id \in PathIds, b \in UpdateBodies, reachable \in BOOLEAN :
           UpdateRecipeUpdate(id, b, reachable)
    \/ \E k \in 1..MaxInFlight : UpdateRecipeRespond(k)
    \/ \E found \in BOOLEAN, n \in 0..MaxCreates : ListRecipeHandler(found, n)
    \/ \E tag \in Queries : SearchRecipesHandler(tag)

Spec == Init /\ [][Next]_vars

(* ------------------------------------------- search over any cache *)

\* Search as a function of the package-level slice: the slice starts with any
\* content of at most MaxCache recipes, and only search requests arrive.
MaxCache == 3

CacheRecipes == {
    MkRecipe(1, "Pasta", <<italian>>, <<"pasta", "water">>, <<"boil">>, 2),
    MkRecipe(2, "Quiche", <<dinner, french>>, <<"eggs">>, <<"bake">>, 2),
    MkRecipe(3, "Pizza", <<Italian, dinner, ITALIAN>>, <<"dough">>, <<"bake">>, 4),
    MkRecipe(4, "Water", <<>>, <<>>, <<>>, 0)}

Caches == UNION {[1..n -> CacheRecipes] : n \in 0..MaxCache}

SearchQueries == Queries \cup {Italian, dinner, empty}

SearchInit ==
    /\ recipes \in Caches
    /\ store = <<>>
    /\ err = FALSE
    /\ counter = 0
    /\ inflight = <<>>
    /\ resp = NoResp
    /\ created = [i \in Ids |-> NotCreated]
    /\ acked = [i \in Ids |-> 0]
    /\ returned = [i \in Ids |-> 0]

SearchNext == \E tag \in SearchQueries : SearchRecipesHandler(tag)

SearchSpec == SearchInit /\ [][SearchNext]_vars

(* ------------------------------------------------------------ claims *)

FourFields(r) == <<r.Name, r.Tags, r.Ingredients, r.Instructions>>
BodyFields(b) ==
    <<Bodies[b].name, Bodies[b].tags, Bodies[b].ingredients, Bodies[b].instructions>>

IsCreateResp == resp.op = "create" /\ resp.called
IsUpdateResp == resp.op = "update" /\ resp.called
IsListOK     == resp.op = "list" /\ resp.status = 200
IsSearch     == resp.op = "search"

\* The stored recipe with id i is in the list response, with the four fields
\* of body b.
Listed(i, b) ==
    \E j \in 1..Len(resp.list) :
        resp.list[j].ID = i /\ FourFields(resp.list[j]) = BodyFields(b)

\* C1: a create whose insert succeeds is answered with the request's four
\* fields unmodified, a server-assigned id and publishedAt; and every later
\* successful list response holds a recipe with that id and those four fields,
\* as long as no update for the id has been made.
C1_CreateRoundTrip ==
    /\ (IsCreateResp /\ ~resp.failed) =>
           /\ resp.status = 200 /\ resp.kind = "recipe"
           /\ FourFields(resp.recipe) = BodyFields(resp.body)
           /\ resp.recipe.ID = resp.objectId /\ resp.recipe.ID # NilObjectID
           /\ resp.recipe.PublishedAt \in Clock
    /\ IsListOK =>
           \A i \in Ids :
               (created[i].pristine /\ returned[i] > 0) => Listed(i, created[i].body)

\* C2: once a recipe with tags ["italian"] has been created, a search for
\* "italian" returns it, a search for "ITALIAN" returns it, and a search for
\* "french" returns an empty list.
C2_SearchAfterCreate ==
    IsSearch =>
        \A i \in Ids :
            (created[i].pristine /\ returned[i] > 0
                 /\ Bodies[created[i].body].tags = <<italian>>) =>
                /\ resp.status = 200
                /\ resp.tag \in {italian, ITALIAN} =>
                       \E j \in 1..Len(resp.list) : resp.list[j].ID = i
                /\ (resp.tag = french /\ \A k \in 1..Len(store) : store[k].tags = <<italian>>)
                       => resp.list = <<>>

\* C3, first part: after an update of an existing recipe has been answered 200
\* (and no later update call was made for that id), a successful list shows the
\* recipe with the four fields of the update body and the id and publishedAt it
\* was stored with.
C3_ListShowsUpdate ==
    IsListOK =>
        \A i \in Ids :
            acked[i] # 0 =>
                \E j \in 1..Len(resp.list) :
                    /\ resp.list[j].ID = i
                    /\ FourFields(resp.list[j]) = BodyFields(acked[i])
                    /\ resp.list[j].PublishedAt = created[i].publishedAt

\* C3, second part: no step changes the id or the publishedAt of a stored
\* recipe, and an update changes no field of a recipe whose id is not the one
\* it was called for.
C3_UpdateFrame ==
    /\ Len(store') >= Len(store)
    /\ \A i \in 1..Len(store) :
           /\ store'[i]._id = store[i]._id
           /\ store'[i].publishedAt = store[i].publishedAt
           /\ (store'[i] # store[i]) =>
                  /\ Len(inflight') = Len(inflight) + 1
                  /\ inflight'[Len(inflight')].op = "update"
                  /\ inflight'[Len(inflight')].objectId = store[i]._id

\* C3: update then list, and the frame of update.
C3_UpdateThenList == [](C3_ListShowsUpdate) /\ [][C3_UpdateFrame]_vars

\* C4: a create or update request whose body does not parse is answered 400,
\* makes no storage call, and leaves the stored recipes and the search cache
\* as they were.
C4_MalformedRejected ==
    [][(resp'.op \in {"create", "update"} /\ ~Bodies[resp'.body].valid) =>
           /\ resp'.status = 400 /\ resp'.kind = "error"
           /\ ~resp'.called
           /\ store' = store /\ recipes' = recipes]_vars

C4_Witness ==
    /\ resp.op = "update" /\ resp.status = 400
    /\ Len(store) = MaxCreates

\* C5: no two stored recipes have the same id, and no two 200 create responses
\* carry the same id, also when the create body supplies an id: the response
\* carries the id NewObjectID gave, never the zero id.
C5_IdsUnique ==
    /\ \A i, j \in 1..Len(store) : store[i]._id = store[j]._id => i = j
    /\ \A i \in Ids : returned[i] <= 1
    /\ (IsCreateResp /\ resp.status = 200) =>
           /\ resp.recipe.ID \in 1..counter
           /\ returned[resp.recipe.ID] = 1

\* Two creates have been answered 200, the second for a body that supplied
\* the id of the first.
C5_Witness ==
    /\ IsCreateResp /\ resp.status = 200
    /\ Bodies[resp.body].id = 1 /\ resp.recipe.ID = 2
    /\ returned[1] = 1 /\ returned[2] = 1
    /\ Len(store) = 2

\* C6: a list, create or update request whose storage call fails is answered
\* 500 with an error message; for list, also when the cursor fails while the
\* documents are read.
C6_StorageFailureIs500 ==
    (resp.called /\ resp.failed) => (resp.status = 500 /\ resp.kind = "error")

\* An update whose id matched no stored recipe when UpdateOne was called.
IsNoMatchResp == IsUpdateResp /\ ~resp.existed

C7_NoMatchResponses ==
    /\ IsNoMatchResp =>
           /\ resp.status \in {200, 500}
           /\ resp.status = 200 => resp.kind = "message"
           /\ (~resp.failed /\ ~resp.overwritten) => resp.status = 200
           /\ resp.status = 500 => (resp.failed \/ resp.overwritten)
    /\ \A id \in PathIds :
           ObjectIDFromHex(id).err => ~HasId(store, ParseParam(id))

\* C7 as amended, the effect: the UpdateOne call of such an update leaves the
\* collection as it was.
C7_NoMatchFrame ==
    (/\ Len(inflight') = Len(inflight) + 1
     /\ inflight'[Len(inflight')].op = "update"
     /\ ~inflight'[Len(inflight')].existed) => store' = store

ToLower(c) == IF 65 <= c /\ c <= 90 THEN c + 32 ELSE c
Lowered(s) == [i \in 1..Len(s) |-> ToLower(s[i])]
Matching(cache, tag) ==
    {i \in 1..Len(cache) :
        \E j \in 1..Len(cache[i].Tags) : Lowered(cache[i].Tags[j]) = Lowered(tag)}

\* C8, the response: 200 with the matching recipes of the cache, each once, in
\* the order of the cache.
C8_SearchResponse ==
    IsSearch =>
        LET m == Matching(recipes, resp.tag) IN
        /\ resp.status = 200
        /\ Len(resp.list) = Cardinality(m)
        /\ \A i \in m :
               resp.list[Cardinality({j \in m : j < i}) + 1] = recipes[i]

\* C8: search answers with exactly the matching recipes and changes neither
\* the cache nor the stored recipes.
C8_SearchMatching ==
    [](C8_SearchResponse) /\ [][recipes' = recipes /\ store' = store]_vars

\* A search that returns two of the cached recipes and leaves one out; one of
\* the two is matched by two of its tags.
C8_Witness ==
    /\ IsSearch /\ resp.tag = italian
    /\ Len(recipes) = MaxCache /\ Len(resp.list) = 2
    /\ \E i \in 1..Len(recipes) : recipes[i].Tags = <<Italian, dinner, ITALIAN>>
    /\ \E i \in 1..Len(recipes) : recipes[i].Tags = <<italian>>

\* C9: the status of a create or update response is decided by the outcome of
\* the request's own storage call: 500 when it failed, 200 when it succeeded.
C9_OwnOutcomeDecides ==
    (resp.op \in {"create", "update"} /\ resp.called) =>
        (resp.status = IF resp.failed THEN 500 ELSE 200)

\* C10: the package-level recipes slice stays empty, and every search is
\* answered 200 with an empty list.
C10_CacheStaysEmpty ==
    /\ recipes = <<>>
    /\ IsSearch => (resp.status = 200 /\ resp.list = <<>>)

\* A search for "italian" answered once every create has been answered 200 and
\* a recipe tagged "italian" is stored.
C10_Witness ==
    /\ IsSearch /\ resp.tag = italian
    /\ \E k \in 1..Len(store) : store[k].tags = <<italian>>
    /\ \A i \in Ids : returned[i] = 1

====
